---- MODULE Spec2Model ----
(***************************************************************************)
(* A model of the ingestion -> chunking -> indexing -> retrieval pipeline  *)
(* of mcp-local-llm (scripts/ingest.py, scripts/embed.py,                  *)
(* scripts/retrieve.py, scripts/doc_parser.py).                            *)
(*                                                                         *)
(* A text is a sequence of words (strings); the empty string is << >>.     *)
(* A token is an integer id.  Python positions are 0-based, sequences here *)
(* are 1-based: Python position p is element p + 1.                        *)
(***************************************************************************)
EXTENDS Integers, Sequences, FiniteSets, TLC

VARIABLES
    \* ---- one call of chunk_text (ingest.py:22-27), a generator
    text,          \* argument text
    max_tokens,    \* argument max_tokens
    overlap,       \* argument overlap
    gen,           \* position of the generator
    tokens,        \* local tokens
    step,          \* local step
    i,             \* loop variable of range(0, len(tokens), step)
    yielded,       \* the chunks the generator has yielded so far, in order
    \* ---- the pipeline
    dataDir,       \* the files of data/raw
    faissIndex,    \* artifacts/faiss.index
    metadataFile,  \* artifacts/metadata.json
    bpc,           \* position of the build_index run
    nBuilds,       \* number of build_index runs started
    docs,          \* load_documents' result, as ingest() received it
    chunks,        \* build_index local chunks
    sources,       \* build_index local sources
    index,         \* build_index local index (the vectors added, in order)
    metadata,      \* build_index local metadata
    lastCall,      \* the latest retrieve call since the last step of a build_index run
    repeated       \* that call had the query and k of the call before it

chunkVars == <<text, max_tokens, overlap, gen, tokens, step, i, yielded>>
pipeVars  == <<dataDir, faissIndex, metadataFile, bpc, nBuilds, docs, chunks,
               sources, index, metadata, lastCall, repeated>>
vars == <<chunkVars, pipeVars>>

Min(a, b) == IF a <= b THEN a ELSE b

(***************************************************************************)
(* Bounds of the model.                                                    *)
(***************************************************************************)
MaxTokensArg == 4     \* chunk_text is called with max_tokens in 1..MaxTokensArg
MaxOverlapArg == 5    \* and overlap in 0..MaxOverlapArg
LongLen == 360        \* number of words of the long document
MaxBuilds == 2        \* build_index runs per behaviour
MaxK == 3             \* retrieve is called with k in 1..MaxK

(***************************************************************************)
(* The tokenizer: AutoTokenizer.from_pretrained("bert-base-uncased")       *)
(* (ingest.py:5-7).  encode() is called with its defaults, so it adds the  *)
(* special tokens [CLS] and [SEP] around the word pieces; decode() is      *)
(* called with its defaults, so it keeps the special tokens in the text.   *)
(* The texts of the model are made of lower-case vocabulary words, each of *)
(* which is one token.                                                     *)
(***************************************************************************)
Vocab == <<"the", "quick", "brown", "fox", "jumps", "over", "apple", "banana">>
CLS == 101
SEP == 102

TokenId(w) == 1000 + (CHOOSE n \in 1..Len(Vocab) : Vocab[n] = w)

Word(t) ==
    IF t = CLS THEN "[CLS]"
    ELSE IF t = SEP THEN "[SEP]"
    ELSE Vocab[t - 1000]

\* tokenizer.encode(text), ingest.py:23
Encode(t) == <<CLS>> \o [n \in 1..Len(t) |-> TokenId(t[n])] \o <<SEP>>

\* tokenizer.decode(tokens[...]), ingest.py:27
Decode(toks) == [n \in 1..Len(toks) |-> Word(toks[n])]

\* tokens[i : i + max_tokens], ingest.py:27 (a Python slice clips at the end)
Window(toks, pos, maxTok) == SubSeq(toks, pos + 1, Min(pos + maxTok, Len(toks)))

\* i is a position range(0, n, st) still produces (st # 0), ingest.py:26
InRange(pos, n, st) == IF st > 0 THEN pos < n ELSE pos > n

(***************************************************************************)
(* chunk_text as the list a caller collects from it: list(chunk_text(..)), *)
(* for step # 0 (with step = 0, range() raises ValueError).                *)
(***************************************************************************)
RECURSIVE ChunkFrom(_, _, _, _)
ChunkFrom(toks, pos, maxTok, st) ==
    IF InRange(pos, Len(toks), st)
    THEN <<Decode(Window(toks, pos, maxTok))>> \o ChunkFrom(toks, pos + st, maxTok, st)
    ELSE << >>

chunk_text(t, maxTok, ov) == ChunkFrom(Encode(t), 0, maxTok, maxTok - ov)

(***************************************************************************)
(* One call of chunk_text, step by step.  Calling a generator function     *)
(* runs none of its body; the first next() runs lines 23-26.               *)
(***************************************************************************)
FoxText == <<"the", "quick", "brown", "fox", "jumps", "over">>
ChunkTexts == { << >>, <<"apple">>, <<"the", "quick">>, <<"apple", "banana", "fox">>, FoxText }

InitChunk ==
    /\ text \in ChunkTexts
    /\ max_tokens \in 1..MaxTokensArg
    /\ overlap \in 0..MaxOverlapArg
    /\ gen = "created"
    /\ tokens = << >>
    /\ step = 0
    /\ i = 0
    /\ yielded = << >>

\* first next(): lines 23, 24 and the construction of range() at line 26
Start ==
    /\ gen = "created"
    /\ tokens' = Encode(text)
    /\ step' = max_tokens - overlap
    /\ i' = 0
    /\ gen' = IF max_tokens - overlap = 0 THEN "ValueError" ELSE "iterating"
    /\ UNCHANGED <<text, max_tokens, overlap, yielded>>

\* one iteration of the loop: line 27
Yield ==
    /\ gen = "iterating"
    /\ InRange(i, Len(tokens), step)
    /\ yielded' = Append(yielded, Decode(Window(tokens, i, max_tokens)))
    /\ i' = i + step
    /\ UNCHANGED <<text, max_tokens, overlap, gen, tokens, step>>

\* range() is exhausted: the generator returns (StopIteration)
Exhaust ==
    /\ gen = "iterating"
    /\ ~InRange(i, Len(tokens), step)
    /\ gen' = "returned"
    /\ UNCHANGED <<text, max_tokens, overlap, tokens, step, i, yielded>>

NextChunk ==
    \/ Start /\ UNCHANGED pipeVars
    \/ Yield /\ UNCHANGED pipeVars
    \/ Exhaust /\ UNCHANGED pipeVars

(***************************************************************************)
(* The corpus directory data/raw and doc_parser (doc_parser.py:88-145).    *)
(* A file name is the sequence of its components: "b.md.txt" is            *)
(* <<"b", ".md", ".txt">>, and file.endswith(".txt") looks at the last.    *)
(***************************************************************************)
LongText == [n \in 1..LongLen |-> Vocab[((n - 1) % Len(Vocab)) + 1]]

EndsWithTxt(name) == Len(name) > 0 /\ name[Len(name)] = ".txt"

\* the directories a user may hand to doc_parser, as the files found in
\* them; c.txt is empty
SourceDirs ==
    { { [name |-> <<"a", ".txt">>, content |-> <<"apple", "banana">>] },
      { [name |-> <<"b", ".md">>,  content |-> LongText],
        [name |-> <<"c", ".txt">>, content |-> << >>] } }

\* what data/raw holds before the first run: nothing, or one file that is no
\* .txt file
InitialDirs ==
    { {},
      { [name |-> <<"notes", ".md">>, isfile |-> TRUE, content |-> <<"the", "fox">>] } }

\* doc_parser.py:121-128
OutputName(name) == IF EndsWithTxt(name) THEN name ELSE name \o <<".txt">>

\* doc_parser.py:117-133: every file with non-empty content is written to
\* data/raw under its output name, replacing a file of that name
doc_parser(dir) ==
    /\ LET saved == { f \in dir : f.content # << >> }
           written == { [name |-> OutputName(f.name), isfile |-> TRUE,
                         content |-> f.content] : f \in saved }
           kept == { g \in dataDir : \A w \in written : w.name # g.name }
       IN  dataDir' = kept \cup written
    /\ UNCHANGED <<faissIndex, metadataFile, bpc, nBuilds, docs, chunks,
                   sources, index, metadata, lastCall, repeated>>

(***************************************************************************)
(* ingest.py: load_documents and ingest.                                   *)
(***************************************************************************)
DefaultMaxTokens == 400
DefaultOverlap == 50

\* os.listdir(DATA_DIR), ingest.py:13: the entries in an arbitrary order
Listdir(dir) ==
    { o \in [1..Cardinality(dir) -> dir] :
        \A a, b \in 1..Cardinality(dir) : a # b => o[a] # o[b] }

IsTxtFile(f) == f.isfile /\ EndsWithTxt(f.name)

\* load_documents over one listing, ingest.py:9-20
load_documents(listing) ==
    LET picked == SelectSeq(listing, IsTxtFile)
    IN  [documents |-> [n \in 1..Len(picked) |-> picked[n].content],
         sources   |-> [n \in 1..Len(picked) |-> picked[n].name]]

\* ingest with chunk_sources.append(src) moved out of the inner loop: one
\* source per document instead of one per chunk
RECURSIVE IngestSourcePerDocument(_, _, _)
IngestSourcePerDocument(documents, srcs, d) ==
    IF d > Min(Len(documents), Len(srcs))
    THEN [chunks |-> << >>, chunk_sources |-> << >>]
    ELSE LET cs   == chunk_text(documents[d], DefaultMaxTokens, DefaultOverlap)
             rest == IngestSourcePerDocument(documents, srcs, d + 1)
         IN  [chunks        |-> cs \o rest.chunks,
              chunk_sources |-> <<srcs[d]>> \o rest.chunk_sources]

\* the loops of ingest, ingest.py:32-40, from document d on
RECURSIVE IngestFrom(_, _, _)
IngestFrom(documents, srcs, d) ==
    IF d > Min(Len(documents), Len(srcs))
    THEN [chunks |-> << >>, chunk_sources |-> << >>]
    ELSE LET cs   == chunk_text(documents[d], DefaultMaxTokens, DefaultOverlap)
             rest == IngestFrom(documents, srcs, d + 1)
         IN  [chunks        |-> cs \o rest.chunks,
              chunk_sources |-> [n \in 1..Len(cs) |-> srcs[d]] \o rest.chunk_sources]

\* ingest() given load_documents' result, ingest.py:29-40
ingest(loaded) == IngestFrom(loaded.documents, loaded.sources, 1)

(***************************************************************************)
(* The embedder SentenceTransformer("all-MiniLM-L6-v2") is an external,    *)
(* deterministic map from a text to a vector of fixed dimension.  Here a   *)
(* vector has two coordinates: how often the text says "apple" and how     *)
(* often "fox", each capped at 2.                                          *)
(***************************************************************************)
Count(t, w) == Cardinality({ n \in 1..Len(t) : t[n] = w })

Embed(t) == <<Min(2, Count(t, "apple")), Min(2, Count(t, "fox"))>>

\* squared Euclidean distance, faiss.IndexFlatL2
Dist(a, b) == (a[1] - b[1]) * (a[1] - b[1]) + (a[2] - b[2]) * (a[2] - b[2])

(***************************************************************************)
(* embed.py: build_index.                                                  *)
(***************************************************************************)
\* embed.py:17-21: the vectors of the index, in the order they are added
BuildIndexVectors(cs) == [n \in 1..Len(cs) |-> Embed(cs[n])]

\* build_index with "id": idx + 1, ids counted from 1
BuildMetadataOneBased(cs, srcs) ==
    [n \in 1..Min(Len(cs), Len(srcs)) |->
        [id |-> n, content |-> cs[n], source |-> srcs[n]]]

\* embed.py:23-29
BuildMetadata(cs, srcs) ==
    [n \in 1..Min(Len(cs), Len(srcs)) |->
        [id |-> n - 1, content |-> cs[n], source |-> srcs[n]]]

NoFile == [exists |-> FALSE, build |-> 0, data |-> << >>]
NoDocs == [documents |-> << >>, sources |-> << >>]
NoCall == [query |-> << >>, k |-> 0, error |-> "none", records |-> << >>]

\* embed.py:12-29: everything build_index does in memory.  With no chunk,
\* encode() returns an array without a second axis and embeddings.shape[1]
\* raises IndexError: the run ends before it writes anything.
BuildStart ==
    /\ bpc \in {"idle", "done"}
    /\ nBuilds < MaxBuilds
    /\ nBuilds' = nBuilds + 1
    /\ \E loaded \in { load_documents(listing) : listing \in Listdir(dataDir) } :
         LET got == ingest(loaded)
         IN  /\ docs' = loaded
             /\ chunks' = got.chunks
             /\ sources' = got.chunk_sources
             /\ IF got.chunks = << >>
                THEN /\ bpc' = "IndexError"
                     /\ index' = << >>
                     /\ metadata' = << >>
                ELSE /\ bpc' = "built"
                     /\ index' = BuildIndexVectors(got.chunks)
                     /\ metadata' = BuildMetadata(got.chunks, got.chunk_sources)
    /\ lastCall' = NoCall
    /\ repeated' = FALSE
    /\ UNCHANGED <<dataDir, faissIndex, metadataFile>>

\* a run that raised leaves the process; the next run starts afresh
BuildFailed ==
    /\ bpc = "IndexError"
    /\ bpc' = "idle"
    /\ docs' = NoDocs
    /\ chunks' = << >>
    /\ sources' = << >>
    /\ lastCall' = NoCall
    /\ repeated' = FALSE
    /\ UNCHANGED <<dataDir, faissIndex, metadataFile, nBuilds, index, metadata>>

\* embed.py:31
WriteIndex ==
    /\ bpc = "built"
    /\ faissIndex' = [exists |-> TRUE, build |-> nBuilds, data |-> index]
    /\ bpc' = "index_written"
    /\ lastCall' = NoCall
    /\ repeated' = FALSE
    /\ UNCHANGED <<dataDir, metadataFile, nBuilds, docs, chunks, sources, index, metadata>>

\* embed.py:33-36
WriteMetadata ==
    /\ bpc = "index_written"
    /\ metadataFile' = [exists |-> TRUE, build |-> nBuilds, data |-> metadata]
    /\ bpc' = "done"
    /\ lastCall' = NoCall
    /\ repeated' = FALSE
    /\ UNCHANGED <<dataDir, faissIndex, nBuilds, docs, chunks, sources, index, metadata>>

\* the process is killed during the run (embed.py:12-34): its memory is lost,
\* the files stay as they are
Interrupt ==
    /\ bpc \in {"built", "index_written"}
    /\ bpc' = "idle"
    /\ docs' = NoDocs
    /\ chunks' = << >>
    /\ sources' = << >>
    /\ index' = << >>
    /\ metadata' = << >>
    /\ lastCall' = NoCall
    /\ repeated' = FALSE
    /\ UNCHANGED <<dataDir, faissIndex, metadataFile, nBuilds>>

(***************************************************************************)
(* retrieve.py.                                                            *)
(***************************************************************************)
Queries == { <<"apple">>, <<"the", "fox">> }

\* index.search(q_emb, k), retrieve.py:20: the k labels (0-based positions)
\* by ascending distance, equal distances by position; faiss fills the
\* labels it has no vector for with -1
RECURSIVE Search(_, _, _, _)
Search(vectors, qv, taken, k) ==
    LET cand == (1..Len(vectors)) \ taken
    IN  IF k = 0 THEN << >>
        ELSE IF cand = {} THEN [n \in 1..k |-> -1]
        ELSE LET best == CHOOSE p \in cand : \A r \in cand :
                            \/ Dist(vectors[p], qv) < Dist(vectors[r], qv)
                            \/ Dist(vectors[p], qv) = Dist(vectors[r], qv) /\ p <= r
             IN  <<best - 1>> \o Search(vectors, qv, taken \cup {best}, k - 1)

\* Python's list[p]: a negative p counts from the end
InBounds(list, p) == -Len(list) <= p /\ p < Len(list)
At(list, p) == IF p >= 0 THEN list[p + 1] ELSE list[Len(list) + p + 1]

\* retrieve(query, k) on the artifacts as they are: retrieve.py:11-21
retrieve(idxFile, metaFile, query, k) ==
    IF ~idxFile.exists \/ ~metaFile.exists
    THEN [query |-> query, k |-> k, error |-> "FileError", records |-> << >>]
    ELSE LET labels == Search(idxFile.data, Embed(query), {}, k)
         IN  IF \E n \in 1..k : ~InBounds(metaFile.data, labels[n])
             THEN [query |-> query, k |-> k, error |-> "IndexError", records |-> << >>]
             ELSE [query |-> query, k |-> k, error |-> "none",
                   records |-> [n \in 1..k |-> At(metaFile.data, labels[n])]]

\* retrieve that saves the records it returns as the new metadata.json
RetrieveSavingResults(query, k) ==
    /\ lastCall' = retrieve(faissIndex, metadataFile, query, k)
    /\ repeated' = (lastCall # NoCall /\ lastCall.query = query /\ lastCall.k = k)
    /\ metadataFile' = IF lastCall'.error = "none"
                       THEN [metadataFile EXCEPT !.data = lastCall'.records]
                       ELSE metadataFile
    /\ UNCHANGED <<dataDir, faissIndex, bpc, nBuilds, docs,
                   chunks, sources, index, metadata>>

\* one retrieve call, retrieve.py:17-21; it may come at any time, also while
\* a build_index run of another process is between its two writes
Retrieve(query, k) ==
    /\ lastCall' = retrieve(faissIndex, metadataFile, query, k)
    /\ repeated' = (lastCall # NoCall /\ lastCall.query = query /\ lastCall.k = k)
    /\ UNCHANGED <<dataDir, faissIndex, metadataFile, bpc, nBuilds, docs,
                   chunks, sources, index, metadata>>

(***************************************************************************)
(* Specifications.                                                         *)
(***************************************************************************)
IdlePipe ==
    /\ faissIndex = NoFile
    /\ metadataFile = NoFile
    /\ bpc = "idle"
    /\ nBuilds = 0
    /\ docs = NoDocs
    /\ chunks = << >>
    /\ sources = << >>
    /\ index = << >>
    /\ metadata = << >>
    /\ lastCall = NoCall
    /\ repeated = FALSE

\* the pipeline: data/raw as found, no artifacts yet, no chunk_text call observed
Init ==
    /\ dataDir \in InitialDirs
    /\ IdlePipe
    /\ text = << >>
    /\ max_tokens = DefaultMaxTokens
    /\ overlap = DefaultOverlap
    /\ gen = "none"
    /\ tokens = << >>
    /\ step = 0
    /\ i = 0
    /\ yielded = << >>

Next ==
    \/ /\ \E dir \in SourceDirs : doc_parser(dir)
       /\ UNCHANGED chunkVars
    \/ BuildStart /\ UNCHANGED chunkVars
    \/ BuildFailed /\ UNCHANGED chunkVars
    \/ WriteIndex /\ UNCHANGED chunkVars
    \/ WriteMetadata /\ UNCHANGED chunkVars
    \/ Interrupt /\ UNCHANGED chunkVars
    \/ /\ \E query \in Queries, k \in 1..MaxK : Retrieve(query, k)
       /\ UNCHANGED chunkVars

Spec == Init /\ [][Next]_vars

\* one call of chunk_text, observed on its own
InitChunkCall == InitChunk /\ dataDir = {} /\ IdlePipe

SpecChunk == InitChunkCall /\ [][NextChunk]_vars

(***************************************************************************)
(* Properties of one chunk_text call (checked under SpecChunk).            *)
(***************************************************************************)
ValidConfig == 0 <= overlap /\ overlap < max_tokens

\* number of positions 0, st, 2*st, ... below n, for st >= 1
NumWindows(n, st) == (n + st - 1) \div st

\* the windows T[i : i + maxTok] for i = 0, st, 2*st, ... while i < Len(T), detokenized
WindowsOf(T, maxTok, st) ==
    [w \in 1..NumWindows(Len(T), st) |-> Decode(Window(T, (w - 1) * st, maxTok))]

\* C5, the window arithmetic alone, over the token sequence the code
\* computes (T = tokenizer.encode(text)): a call with a valid configuration
\* that has returned has yielded exactly the windows of T in order, and every
\* position of T lies in one of them.
ChunkWindowsOverTokens ==
    (gen = "returned" /\ ValidConfig) =>
        /\ yielded = WindowsOf(tokens, max_tokens, step)
        /\ \A p \in 0..(Len(tokens) - 1) :
              \E w \in 1..Len(yielded) :
                 (w - 1) * step <= p /\ p < (w - 1) * step + Len(yielded[w])

\* C5: for a valid configuration chunk_text yields, in order, exactly the
\* windows T[i : i+max_tokens], i = 0, step, 2*step, ... while i < N, every
\* token position lies in a window, and
\* chunk("the quick brown fox jumps over", 3, 1) yields
\* ["the quick brown", "brown fox jumps", "jumps over"].
ChunkWindowsAndScenario ==
    /\ ChunkWindowsOverTokens
    /\ (gen = "returned" /\ text = FoxText /\ max_tokens = 3 /\ overlap = 1) =>
          yielded = << <<"the", "quick", "brown">>,
                       <<"brown", "fox", "jumps">>,
                       <<"jumps", "over">> >>

\* C6: a non-empty text whose token count N is at most max_tokens yields, for
\* every valid overlap, exactly one chunk: the detokenization of the whole
\* token sequence.
ShortTextOneChunk ==
    (gen = "returned" /\ ValidConfig /\ text # << >>
        /\ 1 <= Len(tokens) /\ Len(tokens) <= max_tokens) =>
            yielded = <<Decode(tokens)>>

\* C7: chunk_text applied to the empty string yields zero chunks for every
\* valid (max_tokens, overlap).
EmptyTextNoChunk ==
    (gen = "returned" /\ ValidConfig /\ text = << >>) => yielded = << >>

\* C8: a call with overlap >= max_tokens is rejected with an error: it never
\* returns a chunk sequence as if it had succeeded.
InvalidConfigRejected ==
    (overlap >= max_tokens) => gen # "returned"

(***************************************************************************)
(* Properties of the pipeline (checked under Spec).                        *)
(***************************************************************************)
\* C1: the index file and the metadata file are persisted as a pair: in every
\* state both are absent, or both are present and written by the same
\* build_index run.
PersistedPairAtomic ==
    /\ faissIndex.exists = metadataFile.exists
    /\ faissIndex.build = metadataFile.build

\* C2: when a build_index run has completed, the persisted metadata has as
\* many records as the index has vectors, record i has id i (0-based), and
\* record i has the content and source of the chunk whose embedding is the
\* i-th vector added to the index.
BuildPositionallyCoupled ==
    (bpc = "done") =>
        /\ Len(metadataFile.data) = Len(faissIndex.data)
        /\ Len(metadataFile.data) = Len(chunks)
        /\ \A n \in 1..Len(metadataFile.data) :
              /\ metadataFile.data[n].id = n - 1
              /\ metadataFile.data[n].content = chunks[n]
              /\ metadataFile.data[n].source = sources[n]
              /\ faissIndex.data[n] = Embed(chunks[n])
              /\ faissIndex.data[n] = index[n]

\* C2 witness: a completed run, its second, over at least three chunks
BuildCompletedWitness ==
    /\ bpc = "done"
    /\ nBuilds = 2
    /\ Len(metadataFile.data) >= 3
    /\ faissIndex.build = 2 /\ metadataFile.build = 2

NoBuildRunning == bpc \in {"idle", "done"}

ArtifactsConsistent ==
    /\ faissIndex.exists /\ metadataFile.exists
    /\ Len(metadataFile.data) = Len(faissIndex.data)

DistinctIds(records) ==
    \A a, b \in 1..Len(records) : a # b => records[a].id # records[b].id

\* C3: with no build_index run in progress, a retrieve call with k greater than the number M of vectors of the
\* persisted index returns exactly M records, each position at most once.
RetrieveReturnsAtMostM ==
    (lastCall # NoCall /\ NoBuildRunning /\ ArtifactsConsistent
        /\ lastCall.k > Len(faissIndex.data)) =>
        /\ lastCall.error = "none"
        /\ Len(lastCall.records) = Len(faissIndex.data)
        /\ DistinctIds(lastCall.records)

\* C4: with no build_index run in progress, a retrieve call on artifacts whose metadata length differs from the
\* number of vectors of the index ends in an ArtifactInconsistency error and
\* returns no result list.
MismatchRaisesInconsistency ==
    (lastCall # NoCall /\ NoBuildRunning
        /\ faissIndex.exists /\ metadataFile.exists
        /\ Len(metadataFile.data) # Len(faissIndex.data)) =>
            /\ lastCall.error = "ArtifactInconsistency"
            /\ lastCall.records = << >>

\* C9: a retrieve call that follows a call with the same query and k, with no
\* step of a build_index run between them, returns the same outcome (the same
\* records in the same order), and a retrieve call changes neither the
\* persisted index nor the persisted metadata.
RetrieveIdempotent ==
    [][ /\ repeated' => lastCall' = lastCall
        /\ (lastCall' # NoCall /\ (lastCall' # lastCall \/ repeated'))
            => UNCHANGED <<faissIndex, metadataFile>> ]_vars

\* C9 witness: a repeated call that returned two different records, on
\* artifacts a completed run has written, the corpus having grown since
RetrieveWitness ==
    /\ repeated
    /\ lastCall.error = "none"
    /\ lastCall.k = 2
    /\ lastCall.records[1] # lastCall.records[2]
    /\ bpc = "done"
    /\ \E f \in dataDir :
          IsTxtFile(f) /\ \A d \in 1..Len(docs.sources) : f.name # docs.sources[d]

RECURSIVE ChunksBefore(_)
\* number of chunks of the documents loaded before document d
ChunksBefore(d) ==
    IF d <= 1 THEN 0
    ELSE ChunksBefore(d - 1)
            + NumWindows(Len(Encode(docs.documents[d - 1])),
                         DefaultMaxTokens - DefaultOverlap)

\* C10: ingest returns two lists of equal length in which the chunks of every
\* loaded document, in load order, appear contiguously and in window order,
\* each paired with the file name of the document it was cut from; and the
\* documents loaded are the .txt files of data/raw, each under its own name.
IngestAligned ==
    /\ [](LET D == Len(docs.documents)
              st == DefaultMaxTokens - DefaultOverlap
          IN  /\ Len(docs.sources) = D
              /\ Len(chunks) = Len(sources)
              /\ Len(chunks) = ChunksBefore(D + 1)
              /\ \A d \in 1..D :
                    LET T == Encode(docs.documents[d])
                    IN  \A w \in 1..NumWindows(Len(T), st) :
                           /\ chunks[ChunksBefore(d) + w]
                                 = Decode(Window(T, (w - 1) * st, DefaultMaxTokens))
                           /\ sources[ChunksBefore(d) + w] = docs.sources[d])
    /\ [][ (bpc \in {"idle", "done"} /\ bpc' \in {"built", "IndexError"}) =>
              /\ \A d \in 1..Len(docs'.documents) :
                    \E f \in dataDir :
                       /\ IsTxtFile(f)
                       /\ f.name = docs'.sources[d]
                       /\ f.content = docs'.documents[d]
              /\ Len(docs'.documents) = Cardinality({ f \in dataDir : IsTxtFile(f) }) ]_vars

\* C10 witness: two documents loaded out of three files, the first of them
\* cut into two chunks
IngestWitness ==
    /\ bpc = "built"
    /\ Cardinality(dataDir) = 3
    /\ Len(docs.documents) = 2
    /\ ChunksBefore(2) = 2
    /\ Len(chunks) = 3

====
